---- MODULE Spec2Model ----
(***************************************************************************)
(* The in-memory editable text engine of Tweoss/tasks:                     *)
(*   storage/span_edit.rs      SpanEditable  (coordinate mapper, apply)    *)
(*   storage/text_edit.rs      TextEditable  (edit executor, scanner, log) *)
(*   storage/keyboard_edit.rs  KeyboardEditable (cursor owner)             *)
(*                                                                         *)
(* A text is a sequence of characters.  A character is one of the tokens   *)
(* of Chars; each token stands for one Unicode scalar value:               *)
(*   "a"   U+0061  1 byte   alphanumeric                                   *)
(*   "E"   U+00E9  2 bytes  alphanumeric (e acute)                         *)
(*   " "   U+0020  1 byte   inline whitespace                              *)
(*   "."   U+002E  1 byte   punctuation                                    *)
(*   "LF"  U+000A  1 byte   newline class, the rope's line break           *)
(*   "CR"  U+000D  1 byte   newline class, line break only as CR LF        *)
(*   "NEL" U+0085  2 bytes  newline class, no line break for the rope      *)
(* and the further letters that map_key_event binds ("b", "d", "e", "f",  *)
(* "r", "u", "z"), each itself, 1 byte, alphanumeric.                      *)
(* Byte offsets are sums of len_utf8 over characters, so an offset that   *)
(* falls inside "E" or "NEL" is not a character boundary.                  *)
(***************************************************************************)
EXTENDS Integers, Sequences, FiniteSets, TLC

VARIABLES
    text,        \* SpanEditable.0: the rope's content
    cursor,      \* KeyboardEditable.cursor
    entries,     \* Log.entries
    next_index,  \* Log.next_index
    op,          \* the TextOp of the last call (NoOp before any call)
    result,      \* "Init" | "Noop" | "Dirty" | "Panic": outcome of the last call
    new_pos,     \* Option<Pos> returned by the last call: <<>> or <<p>>
    oob,         \* the last call left through the unwrap! diagnostic path
    pre,         \* text, cursor, next_index and dropped as the last call
                 \* found them, and whether the call before committed an edit
    dropped,     \* entries that the last call's push_entry truncated away
    key,         \* the last key event handed to a text box (NoKey before one)
    dirty        \* Task.dirty of the task whose body the field is (FALSE for a
                 \* field outside a task)

vars ==
    <<text, cursor, entries, next_index, op, result, new_pos, oob, pre, dropped,
      key, dirty>>

-----------------------------------------------------------------------------
(* Bounds of the model *)

MaxLen == 3      \* longest buffer of a field that is followed, in characters
MaxLog == 1      \* longest log of a field that is followed, in entries
MaxInitLen == 1  \* longest initial text of a field, in characters
MaxCallLen == 3  \* longest buffer of a single call, in characters
MaxLogLen == 3   \* longest log of a field whose log is followed, in entries

-----------------------------------------------------------------------------
(* Characters: char::len_utf8, chumsky::text::Char, char::is_* *)

Chars == {"a", "E", " ", ".", "LF", "CR", "NEL"}

\* the characters of the texts a field is followed through
FieldChars == {"a", "LF"}

\* the letters that a key binding of map_key_event names
KeyLetters == {"a", "b", "d", "e", "f", "r", "u", "z"}

\* every character a text can hold
AllChars == Chars \cup KeyLetters

len_utf8(c) == IF c \in {"E", "NEL"} THEN 2 ELSE 1

is_newline(c) == c \in {"LF", "CR", "NEL"}

is_inline_whitespace(c) == c = " "

is_alphanumeric(c) == c \in KeyLetters \cup {"E"}

is_whitespace(c) == c \in {" ", "LF", "CR", "NEL"}

-----------------------------------------------------------------------------
(* Results: Ok(v), Err(EditErr::OutOfBounds), or a panic of the callee *)

Ok(v) == [tag |-> "Ok", val |-> v]

ErrOutOfBounds == [tag |-> "OutOfBounds"]

Panic == [tag |-> "Panic"]

Pos(l, c) == [line |-> l, column |-> c]

Min(a, b) == IF a < b THEN a ELSE b

-----------------------------------------------------------------------------
(* The rope (crop::Rope) as the engine uses it.  Its line breaks are LF    *)
(* and CR LF; a final line break starts no further line.                   *)

RECURSIVE byte_len(_)
byte_len(s) == IF s = <<>> THEN 0 ELSE len_utf8(Head(s)) + byte_len(Tail(s))

Prefix(s, k) == SubSeq(s, 1, k)

Suffix(s, k) == SubSeq(s, k + 1, Len(s))

Reverse(s) == [i \in 1..Len(s) |-> s[Len(s) + 1 - i]]

\* byte b is the start of a character of s, or its end
IsCharBoundary(s, b) == \E k \in 0..Len(s) : byte_len(Prefix(s, k)) = b

\* the number of characters of byte_slice(..b), b a character boundary
CharsBefore(s, b) == CHOOSE k \in 0..Len(s) : byte_len(Prefix(s, k)) = b

LineBreaks(t) == {i \in 1..Len(t) : t[i] = "LF"}

line_len(t) ==
    IF t = <<>> THEN 0
    ELSE Cardinality(LineBreaks(t)) + (IF t[Len(t)] = "LF" THEN 0 ELSE 1)

\* index of the first character of line n (n counted from 0)
LineStart(t, n) ==
    IF n = 0 THEN 1
    ELSE 1 + CHOOSE i \in LineBreaks(t) :
                 Cardinality({j \in LineBreaks(t) : j <= i}) = n

\* index of the last character of line n, its line break included
LineEnd(t, n) ==
    IF \E i \in LineBreaks(t) : i >= LineStart(t, n)
    THEN CHOOSE i \in LineBreaks(t) :
             /\ i >= LineStart(t, n)
             /\ \A j \in LineBreaks(t) : j >= LineStart(t, n) => i <= j
    ELSE Len(t)

\* raw_lines(): line n with its line break; n < line_len(t)
raw_line(t, n) == SubSeq(t, LineStart(t, n), LineEnd(t, n))

\* a line without its trailing LF or CR LF
StripBreak(l) ==
    IF l # <<>> /\ l[Len(l)] = "LF"
    THEN IF Len(l) >= 2 /\ l[Len(l) - 1] = "CR"
         THEN Prefix(l, Len(l) - 2)
         ELSE Prefix(l, Len(l) - 1)
    ELSE l

\* line(n) and lines(): line n without its line break; n < line_len(t)
line(t, n) == StripBreak(raw_line(t, n))

byte_of_line(t, n) == byte_len(Prefix(t, LineStart(t, n) - 1))

\* line_of_byte(b): the line breaks that end before byte b
line_of_byte(t, b) ==
    Cardinality({i \in LineBreaks(t) : byte_len(Prefix(t, i)) <= b})

\* raw_lines().next_back() is none, or its last character is a newline
EndsWithNewline(t) == t = <<>> \/ is_newline(t[Len(t)])

-----------------------------------------------------------------------------
(* Coordinate mapper: storage/span_edit.rs *)

\* a simulated final newline that needs a last character: with it the
\* empty buffer has no Position at all, which is what C37 rules out
is_simulated_final_newline_needing_text(t, pos) ==
    /\ pos.line = line_len(t)
    /\ pos.column = 0
    /\ t # <<>>
    /\ is_newline(t[Len(t)])

is_simulated_final_newline(t, pos) ==
    /\ pos.line = line_len(t)
    /\ pos.column = 0
    /\ EndsWithNewline(t)

get_line_char_len(t, l) ==
    IF l = line_len(t) /\ EndsWithNewline(t) THEN Ok(0)
    ELSE IF l >= line_len(t) THEN ErrOutOfBounds
    ELSE Ok(Len(line(t, l)))

\* a get_byte that refuses the end of a line: what C24 rules out
get_byte_refusing_line_end(t, pos) ==
    IF is_simulated_final_newline(t, pos) THEN Ok(byte_len(t))
    ELSE IF pos.line >= line_len(t) THEN ErrOutOfBounds
    ELSE IF pos.column >= Len(line(t, pos.line)) THEN ErrOutOfBounds
    ELSE Ok(byte_of_line(t, pos.line)
            + byte_len(Prefix(line(t, pos.line), pos.column)))

get_byte(t, pos) ==
    IF is_simulated_final_newline(t, pos) THEN Ok(byte_len(t))
    ELSE IF pos.line >= line_len(t) THEN ErrOutOfBounds
    ELSE IF pos.column > Len(line(t, pos.line)) THEN ErrOutOfBounds
    ELSE Ok(byte_of_line(t, pos.line)
            + byte_len(Prefix(line(t, pos.line), pos.column)))

pos_from_byte(t, b) ==
    IF b > byte_len(t) THEN ErrOutOfBounds
    ELSE IF b = byte_len(t)
    THEN IF EndsWithNewline(t)
         THEN Ok(Pos(line_len(t), 0))
         ELSE Ok(Pos(line_len(t) - 1, Len(line(t, line_len(t) - 1))))
    ELSE LET l == line_of_byte(t, b)
             off == b - byte_of_line(t, l)
         IN  \* byte_slice(0..off) of the line panics off a character
             \* boundary and past the line's end (between CR and LF)
             IF ~IsCharBoundary(t, b) \/ off > byte_len(line(t, l))
             THEN Panic
             ELSE Ok(Pos(l, CharsBefore(line(t, l), off)))

-----------------------------------------------------------------------------
(* EditOp and its application: storage/span_edit.rs *)

Insert(pos, t) == [kind |-> "Insert", pos |-> pos, text |-> t]

Delete(start, end) == [kind |-> "Delete", start |-> start, end |-> end]

\* Rope::insert at a byte offset that get_byte returned
RopeInsert(t, b, s) ==
    Prefix(t, CharsBefore(t, b)) \o s \o Suffix(t, CharsBefore(t, b))

\* Rope::delete(s..e), s <= e
RopeDelete(t, s, e) ==
    Prefix(t, CharsBefore(t, s)) \o Suffix(t, CharsBefore(t, e))

\* the characters of byte_slice(s..e), s <= e
RopeSlice(t, s, e) == SubSeq(t, CharsBefore(t, s) + 1, CharsBefore(t, e))

\* Ok(the new text), Err(OutOfBounds) before anything is changed, or the
\* rope's panic on a range whose start is after its end
apply_edit(t, e) ==
    IF e.kind = "Insert"
    THEN LET b == get_byte(t, e.pos)
         IN  IF b.tag # "Ok" THEN b
             ELSE Ok(RopeInsert(t, b.val, e.text))
    ELSE LET s == get_byte(t, e.start)
             n == get_byte(t, e.end)
         IN  IF s.tag # "Ok" THEN s
             ELSE IF n.tag # "Ok" THEN n
             ELSE IF s.val > n.val THEN Panic
             ELSE Ok(RopeDelete(t, s.val, n.val))

-----------------------------------------------------------------------------
(* Edit executor and boundary scanner: storage/text_edit.rs *)

\* chars().filter(|c| c.is_newline()).count()
NewlineCount(s) == Cardinality({i \in 1..Len(s) : is_newline(s[i])})

\* take_while: the length of the longest prefix of s whose characters are
\* all in the set S
RunLen(s, S) ==
    IF \E i \in 1..Len(s) : s[i] \notin S
    THEN (CHOOSE i \in 1..Len(s) :
              s[i] \notin S /\ \A j \in 1..(i - 1) : s[j] \in S) - 1
    ELSE Len(s)

Newlines == {c \in AllChars : is_newline(c)}

InlineWhitespace == {c \in AllChars : is_inline_whitespace(c)}

\* str::lines().last() of a text that holds a newline-class character:
\* the text after its last LF, or, when the text ends with LF, the line
\* that this LF ends; a CR before the LF goes with it
str_lines_last(t) == line(t, line_len(t) - 1)

calc_cursor_pos(e) ==
    IF e.kind = "Insert"
    THEN LET new_lines == NewlineCount(e.text)
             new_column == IF new_lines = 0
                           THEN e.pos.column + Len(e.text)
                           ELSE Len(str_lines_last(e.text))
         IN  Pos(e.pos.line + new_lines, new_column)
    ELSE e.start

\* saturating_char_offset
saturating_char_offset(t, c, lr) ==
    LET byte == get_byte(t, c)
    IN  IF byte.tag # "Ok" THEN byte
        ELSE LET k == CharsBefore(t, byte.val)
             IN  IF lr = "Left"
                 THEN pos_from_byte(t, byte.val
                          - (IF k > 0 THEN len_utf8(t[k]) ELSE 0))
                 ELSE pos_from_byte(t, byte.val
                          + (IF k < Len(t) THEN len_utf8(t[k + 1]) ELSE 0))

CharType(c) ==
    IF is_alphanumeric(c) THEN "Alphanumeric"
    ELSE IF is_newline(c) THEN "Newline"
    ELSE IF is_whitespace(c) THEN "Whitespace"
    ELSE "Other"

\* count_bytes_till_boundary of saturating_word_boundary; it is the
\* characters in scan order.  skip(count) skips count characters, count
\* being a number of bytes.
WordCount(it) ==
    LET first == IF it # <<>> /\ is_newline(it[1])
                 THEN byte_len(Prefix(it, RunLen(it, Newlines)))
                 ELSE byte_len(Prefix(it, RunLen(it, InlineWhitespace)))
        rest == Suffix(it, Min(first, Len(it)))
        SameType == {c \in AllChars : CharType(c) = CharType(rest[1])}
    IN  IF rest = <<>> THEN first
        ELSE first + byte_len(Prefix(rest, RunLen(rest, SameType)))

\* count_bytes_till_boundary of saturating_line_boundary
LineCount(it) ==
    IF it # <<>> /\ is_newline(it[1]) THEN len_utf8(it[1])
    ELSE byte_len(Prefix(it, RunLen(it, AllChars \ Newlines)))

\* the shared tail of saturating_word_boundary and saturating_line_boundary
ScanBoundary(t, c, lr, unit) ==
    LET byte == get_byte(t, c)
    IN  IF byte.tag # "Ok" THEN byte
        ELSE LET k == CharsBefore(t, byte.val)
                 it == IF lr = "Left"
                       THEN Reverse(Prefix(t, k))
                       ELSE Suffix(t, k)
                 n == IF unit = "Word" THEN WordCount(it) ELSE LineCount(it)
             IN  IF lr = "Left"
                 THEN IF n > byte.val THEN Panic
                      ELSE pos_from_byte(t, byte.val - n)
                 ELSE pos_from_byte(t, byte.val + n)

saturating_word_boundary(t, c, lr) == ScanBoundary(t, c, lr, "Word")

saturating_line_boundary(t, c, lr) == ScanBoundary(t, c, lr, "Line")

saturating_offset(t, c, unit, lr) ==
    CASE unit = "Char" -> saturating_char_offset(t, c, lr)
      [] unit = "Word" -> saturating_word_boundary(t, c, lr)
      [] unit = "Line" -> saturating_line_boundary(t, c, lr)

-----------------------------------------------------------------------------
(* Undo/redo log: storage/text_edit.rs, Log *)

\* LogEntry { edit, undo }: the edit and its inverse, taken as the edit is
\* committed on text t: an Insert pairs with the Delete from its position
\* to the post-edit cursor, a Delete with the Insert of the deleted text
\* at its start
LogEntryOf(t, e) ==
    [edit |-> e,
     undo |-> IF e.kind = "Insert"
              THEN Delete(e.pos, calc_cursor_pos(e))
              ELSE Insert(e.start,
                          RopeSlice(t, get_byte(t, e.start).val,
                                       get_byte(t, e.end).val))]

\* a push that keeps the entries beyond next_index: the log that C3 rules out
push_entry_keeping_branch(es, ni, entry) ==
    [entries |-> Append(es, entry), next_index |-> ni + 1]

\* a push that forgets the entries before next_index as well: what C18
\* rules out
push_entry_dropping_all(es, ni, entry) ==
    [entries |-> <<entry>>, next_index |-> ni + 1]

\* Log::push_entry: the entries and next_index after the push
push_entry(es, ni, entry) ==
    [entries |-> Append(Prefix(es, Min(ni, Len(es))), entry),
     next_index |-> ni + 1]

\* Log::undo: none, or the new next_index and the undo op of the entry there
log_undo(es, ni) ==
    IF ni = 0 THEN [some |-> FALSE, next_index |-> ni]
    ELSE [some |-> TRUE, next_index |-> ni - 1, edit_op |-> es[ni].undo]

\* a redo that gives up one entry before the end of the log: what C19
\* rules out
log_redo_stopping_early(es, ni) ==
    IF ni + 2 > Len(es) THEN [some |-> FALSE, next_index |-> ni]
    ELSE [some |-> TRUE, next_index |-> ni + 1, edit_op |-> es[ni + 1].edit]

\* Log::redo: none, or the new next_index and the edit op of the entry left
log_redo(es, ni) ==
    IF ni + 1 > Len(es) THEN [some |-> FALSE, next_index |-> ni]
    ELSE [some |-> TRUE, next_index |-> ni + 1, edit_op |-> es[ni + 1].edit]

-----------------------------------------------------------------------------
(* TextOp and TextEditable::handle_edit_event *)

MoveUp == [kind |-> "Move", dir |-> "Up"]

MoveDown == [kind |-> "Move", dir |-> "Down"]

MoveHorizontal(u, lr) ==
    [kind |-> "Move", dir |-> "Horizontal", unit |-> u, lr |-> lr]

InsertText(t) == [kind |-> "InsertText", text |-> t]

DeleteOp(u, lr) == [kind |-> "Delete", unit |-> u, lr |-> lr]

UndoOp == [kind |-> "Undo"]

RedoOp == [kind |-> "Redo"]

NoOp == [kind |-> "None"]

Units == {"Char", "Word", "Line"}

LeftRight == {"Left", "Right"}

\* what a call leaves: the field, the (EditResult, Option<Pos>) it returns,
\* and whether it left through unwrap!'s diagnostic
Outcome(t, es, ni, res, np, diag) ==
    [text |-> t, entries |-> es, next_index |-> ni,
     result |-> res, new_pos |-> np, oob |-> diag]

\* unwrap! on a value that is not Ok: log the diagnostic and return
\* (Noop, None); a panic of the callee unwinds
Bail(r, t, es, ni) ==
    IF r.tag = "Panic"
    THEN Outcome(t, es, ni, "Panic", <<>>, FALSE)
    ELSE Outcome(t, es, ni, "Noop", <<>>, TRUE)

\* a vertical move that keeps the column whatever the length of the line it
\* arrives on: what C29 rules out
HandleVertical_keeping_column(t, es, ni, c, o) ==
    LET moves == IF o.dir = "Up" THEN c.line > 0 ELSE c.line < line_len(t)
        l == IF o.dir = "Up" THEN c.line - 1 ELSE c.line + 1
        char_len == get_line_char_len(t, l)
    IN  IF ~moves THEN Outcome(t, es, ni, "Noop", <<c>>, FALSE)
        ELSE IF char_len.tag # "Ok" THEN Bail(char_len, t, es, ni)
        ELSE Outcome(t, es, ni, "Noop", <<Pos(l, c.column)>>, FALSE)

\* a Down that stops on the last line of the text and never steps onto the
\* simulated final newline: what C30 rules out
HandleVertical_stopping_at_last_line(t, es, ni, c, o) ==
    LET moves == IF o.dir = "Up" THEN c.line > 0
                 ELSE c.line + 1 < line_len(t)
        l == IF o.dir = "Up" THEN c.line - 1 ELSE c.line + 1
        char_len == get_line_char_len(t, l)
    IN  IF ~moves THEN Outcome(t, es, ni, "Noop", <<c>>, FALSE)
        ELSE IF char_len.tag # "Ok" THEN Bail(char_len, t, es, ni)
        ELSE Outcome(t, es, ni, "Noop",
                     <<Pos(l, Min(c.column, char_len.val))>>, FALSE)

\* TextOp::Move(MoveDir::Up | MoveDir::Down)
HandleVertical(t, es, ni, c, o) ==
    LET moves == IF o.dir = "Up" THEN c.line > 0 ELSE c.line < line_len(t)
        l == IF o.dir = "Up" THEN c.line - 1 ELSE c.line + 1
        char_len == get_line_char_len(t, l)
    IN  IF ~moves THEN Outcome(t, es, ni, "Noop", <<c>>, FALSE)
        ELSE IF char_len.tag # "Ok" THEN Bail(char_len, t, es, ni)
        ELSE Outcome(t, es, ni, "Noop",
                     <<Pos(l, Min(c.column, char_len.val))>>, FALSE)

\* TextOp::Move(MoveDir::Horizontal)
HandleHorizontal(t, es, ni, c, o) ==
    LET r == saturating_offset(t, c, o.unit, o.lr)
    IN  IF r.tag # "Ok" THEN Bail(r, t, es, ni)
        ELSE Outcome(t, es, ni, "Noop", <<r.val>>, FALSE)

\* the common end of InsertText and Delete: apply, push the entry
CommitEdit(t, es, ni, e) ==
    LET new_pos_ == calc_cursor_pos(e)
        r == apply_edit(t, e)
        log == push_entry(es, ni, LogEntryOf(t, e))
    IN  IF r.tag # "Ok" THEN Bail(r, t, es, ni)
        ELSE Outcome(r.val, log.entries, log.next_index,
                     "Dirty", <<new_pos_>>, FALSE)

\* TextOp::InsertText
HandleInsert(t, es, ni, c, o) == CommitEdit(t, es, ni, Insert(c, o.text))

\* a Delete that returns Noop and pushes nothing when the scanned boundary
\* is the cursor: what C34 rules out
HandleDelete_skipping_empty(t, es, ni, c, o) ==
    LET other == saturating_offset(t, c, o.unit, o.lr)
    IN  IF other.tag # "Ok" THEN Bail(other, t, es, ni)
        ELSE IF other.val = c THEN Outcome(t, es, ni, "Noop", <<c>>, FALSE)
        ELSE IF o.lr = "Left"
        THEN CommitEdit(t, es, ni, Delete(other.val, c))
        ELSE CommitEdit(t, es, ni, Delete(c, other.val))

\* TextOp::Delete
HandleDelete(t, es, ni, c, o) ==
    LET other == saturating_offset(t, c, o.unit, o.lr)
    IN  IF other.tag # "Ok" THEN Bail(other, t, es, ni)
        ELSE IF o.lr = "Left"
        THEN CommitEdit(t, es, ni, Delete(other.val, c))
        ELSE CommitEdit(t, es, ni, Delete(c, other.val))

\* a replay that drops the entries beyond the new next_index, as a stack
\* that pops on Undo would: what C32 rules out
HandleReplay_popping(t, es, ni, o) ==
    LET l == IF o.kind = "Undo" THEN log_undo(es, ni) ELSE log_redo(es, ni)
        r == apply_edit(t, l.edit_op)
    IN  IF ~l.some THEN Outcome(t, es, ni, "Noop", <<>>, FALSE)
        ELSE IF r.tag # "Ok" THEN Bail(r, t, es, l.next_index)
        ELSE Outcome(r.val, Prefix(es, l.next_index), l.next_index, "Dirty",
                     <<calc_cursor_pos(l.edit_op)>>, FALSE)

\* a replay that changes the buffer and reports Noop: what C26 rules out
HandleReplay_silent(t, es, ni, o) ==
    LET l == IF o.kind = "Undo" THEN log_undo(es, ni) ELSE log_redo(es, ni)
        r == apply_edit(t, l.edit_op)
    IN  IF ~l.some THEN Outcome(t, es, ni, "Noop", <<>>, FALSE)
        ELSE IF r.tag # "Ok" THEN Bail(r, t, es, l.next_index)
        ELSE Outcome(r.val, es, l.next_index, "Noop",
                     <<calc_cursor_pos(l.edit_op)>>, FALSE)

\* a replay that reports Dirty and the start of the buffer when the log
\* has nothing to replay: what C17 rules out
HandleReplay_nothing_is_dirty(t, es, ni, o) ==
    LET l == IF o.kind = "Undo" THEN log_undo(es, ni) ELSE log_redo(es, ni)
        r == apply_edit(t, l.edit_op)
    IN  IF ~l.some THEN Outcome(t, es, ni, "Dirty", <<Pos(0, 0)>>, FALSE)
        ELSE IF r.tag # "Ok" THEN Bail(r, t, es, l.next_index)
        ELSE Outcome(r.val, es, l.next_index, "Dirty",
                     <<calc_cursor_pos(l.edit_op)>>, FALSE)

\* TextOp::Redo and TextOp::Undo: the log moves first, then the op is
\* replayed; the log keeps its new index when the replay bails out
HandleReplay(t, es, ni, o) ==
    LET l == IF o.kind = "Undo" THEN log_undo(es, ni) ELSE log_redo(es, ni)
        r == apply_edit(t, l.edit_op)
    IN  IF ~l.some THEN Outcome(t, es, ni, "Noop", <<>>, FALSE)
        ELSE IF r.tag # "Ok" THEN Bail(r, t, es, l.next_index)
        ELSE Outcome(r.val, es, l.next_index, "Dirty",
                     <<calc_cursor_pos(l.edit_op)>>, FALSE)

\* a handle_edit_event whose Undo and Redo hand back the cursor they were
\* given instead of the position of the replayed op: what C35 rules out
handle_edit_event_replaying_at_cursor(t, es, ni, c, o) ==
    CASE o.kind = "Move" /\ o.dir = "Horizontal" ->
             HandleHorizontal(t, es, ni, c, o)
      [] o.kind = "Move" /\ o.dir # "Horizontal" ->
             HandleVertical(t, es, ni, c, o)
      [] o.kind = "InsertText" -> HandleInsert(t, es, ni, c, o)
      [] o.kind = "Delete" -> HandleDelete(t, es, ni, c, o)
      [] o.kind \in {"Undo", "Redo"} ->
             LET out == HandleReplay(t, es, ni, o)
             IN  IF out.new_pos = <<>> THEN out
                 ELSE [out EXCEPT !.new_pos = <<c>>]

handle_edit_event(t, es, ni, c, o) ==
    CASE o.kind = "Move" /\ o.dir = "Horizontal" ->
             HandleHorizontal(t, es, ni, c, o)
      [] o.kind = "Move" /\ o.dir # "Horizontal" ->
             HandleVertical(t, es, ni, c, o)
      [] o.kind = "InsertText" -> HandleInsert(t, es, ni, c, o)
      [] o.kind = "Delete" -> HandleDelete(t, es, ni, c, o)
      [] o.kind \in {"Undo", "Redo"} -> HandleReplay(t, es, ni, o)

-----------------------------------------------------------------------------
(* KeyboardEditable: storage/keyboard_edit.rs *)

\* from_rope: the cursor of a new field
from_rope(t, cursor_at_end) ==
    IF cursor_at_end
    THEN Pos(IF line_len(t) = 0 THEN 0 ELSE line_len(t) - 1,
             IF line_len(t) = 0 THEN 0 ELSE Len(line(t, line_len(t) - 1)))
    ELSE Pos(0, 0)

\* the last call was an InsertText or Delete that returned Dirty
Edited == op.kind \in {"InsertText", "Delete"} /\ result = "Dirty"

\* the field as a call finds it, with the text it was built from
Field == [text |-> text, cursor |-> cursor, next_index |-> next_index,
          dropped |-> dropped, edited |-> Edited,
          rope |-> pre.rope, dirty |-> dirty]

\* apply_text_op: the call on the stored cursor, which takes the new
\* position when one is returned.  A panic ends the program.
apply_text_op(o) ==
    /\ result # "Panic"
    /\ \E out \in {handle_edit_event(text, entries, next_index, cursor, o)} :
        /\ text' = out.text
        /\ entries' = out.entries
        /\ next_index' = out.next_index
        /\ cursor' = IF out.new_pos # <<>> THEN out.new_pos[1] ELSE cursor
        /\ op' = o
        /\ result' = out.result
        /\ new_pos' = out.new_pos
        /\ oob' = out.oob
        /\ dropped' = IF out.result = "Dirty" /\ o.kind \in {"InsertText", "Delete"}
                      THEN Len(entries) - next_index
                      ELSE 0
        /\ pre' = Field

\* KeyEvent: a key code with the ALT and CONTROL modifiers
Key(code, alt, ctrl) == [code |-> code, alt |-> alt, ctrl |-> ctrl]

\* KeyEvent of KeyCode::Char(c)
KeyChar(c, alt, ctrl) == [code |-> "Char", char |-> c, alt |-> alt, ctrl |-> ctrl]

\* a map_key_event whose plain Backspace arm comes before the Alt+Backspace
\* arm, so that Alt+Backspace deletes one character: what C25 rules out
map_key_event_backspace_arms_swapped(k) ==
    LET is(c) == k.code = "Char" /\ k.char = c
    IN  IF k.code = "Up" THEN <<MoveUp>>
        ELSE IF k.code = "Down" THEN <<MoveDown>>
        ELSE IF is("a") /\ k.ctrl THEN <<MoveHorizontal("Line", "Left")>>
        ELSE IF is("b") /\ k.alt THEN <<MoveHorizontal("Word", "Left")>>
        ELSE IF k.code = "Left" THEN <<MoveHorizontal("Char", "Left")>>
        ELSE IF is("e") /\ k.ctrl THEN <<MoveHorizontal("Line", "Right")>>
        ELSE IF is("f") /\ k.alt THEN <<MoveHorizontal("Word", "Right")>>
        ELSE IF k.code = "Right" THEN <<MoveHorizontal("Char", "Right")>>
        ELSE IF k.code = "Enter" THEN <<InsertText(<<"LF">>)>>
        ELSE IF is("u") /\ k.ctrl THEN <<DeleteOp("Line", "Left")>>
        ELSE IF k.code = "Backspace" THEN <<DeleteOp("Char", "Left")>>
        ELSE IF k.code = "Backspace" /\ k.alt THEN <<DeleteOp("Word", "Left")>>
        ELSE IF k.code = "Delete" THEN <<DeleteOp("Line", "Right")>>
        ELSE IF is("d") /\ k.alt THEN <<DeleteOp("Word", "Right")>>
        ELSE IF is("d") /\ k.ctrl THEN <<DeleteOp("Char", "Right")>>
        ELSE IF is("z") /\ k.ctrl THEN <<UndoOp>>
        ELSE IF is("r") /\ k.ctrl THEN <<RedoOp>>
        ELSE IF k.code = "Char" THEN <<InsertText(<<k.char>>)>>
        ELSE <<>>

\* map_key_event: none (<<>>) or the TextOp of a key event; the arms of the
\* match are tried in the order of the source
map_key_event(k) ==
    LET is(c) == k.code = "Char" /\ k.char = c
    IN  IF k.code = "Up" THEN <<MoveUp>>
        ELSE IF k.code = "Down" THEN <<MoveDown>>
        ELSE IF is("a") /\ k.ctrl THEN <<MoveHorizontal("Line", "Left")>>
        ELSE IF is("b") /\ k.alt THEN <<MoveHorizontal("Word", "Left")>>
        ELSE IF k.code = "Left" THEN <<MoveHorizontal("Char", "Left")>>
        ELSE IF is("e") /\ k.ctrl THEN <<MoveHorizontal("Line", "Right")>>
        ELSE IF is("f") /\ k.alt THEN <<MoveHorizontal("Word", "Right")>>
        ELSE IF k.code = "Right" THEN <<MoveHorizontal("Char", "Right")>>
        ELSE IF k.code = "Enter" THEN <<InsertText(<<"LF">>)>>
        ELSE IF is("u") /\ k.ctrl THEN <<DeleteOp("Line", "Left")>>
        ELSE IF k.code = "Backspace" /\ k.alt THEN <<DeleteOp("Word", "Left")>>
        ELSE IF k.code = "Backspace" THEN <<DeleteOp("Char", "Left")>>
        ELSE IF k.code = "Delete" THEN <<DeleteOp("Line", "Right")>>
        ELSE IF is("d") /\ k.alt THEN <<DeleteOp("Word", "Right")>>
        ELSE IF is("d") /\ k.ctrl THEN <<DeleteOp("Char", "Right")>>
        ELSE IF is("z") /\ k.ctrl THEN <<UndoOp>>
        ELSE IF is("r") /\ k.ctrl THEN <<RedoOp>>
        ELSE IF k.code = "Char" THEN <<InsertText(<<k.char>>)>>
        ELSE <<>>

\* no key event
NoKey == [code |-> "None"]

\* apply_text_op called with an op that no key event of a text box led to
Apply(o) == apply_text_op(o) /\ UNCHANGED <<key, dirty>>

-----------------------------------------------------------------------------
(* Inputs *)

RECURSIVE TextsOver(_, _)
TextsOver(A, n) ==
    IF n = 0 THEN {<<>>}
    ELSE LET S == TextsOver(A, n - 1)
         IN  S \cup {Append(s, c) : s \in S, c \in A}

\* what a key inserts (one character, Enter's line feed) and texts that
\* only a caller of InsertText can hand in
InsertTexts == {<<c>> : c \in FieldChars} \cup {<<"a", "LF">>}

\* an edit is taken while the buffer and the log stay within the bounds
Room(o) ==
    /\ next_index < MaxLog
    /\ o.kind = "InsertText" => Len(text) + Len(o.text) <= MaxLen

\* a Redo that inserts is taken while the buffer stays within the bound
RoomToRedo ==
    (next_index < Len(entries) /\ entries[next_index + 1].edit.kind = "Insert")
        => Len(text) + Len(entries[next_index + 1].edit.text) <= MaxLen

\* an Undo that inserts is taken while the buffer stays within the bound
RoomToUndo ==
    (next_index > 0 /\ entries[next_index].undo.kind = "Insert")
        => Len(text) + Len(entries[next_index].undo.text) <= MaxLen

DoMoveVertical == \E o \in {MoveUp, MoveDown} : Apply(o)

DoMoveHorizontal ==
    \E u \in Units, lr \in LeftRight : Apply(MoveHorizontal(u, lr))

DoInsert ==
    \E s \in InsertTexts : Room(InsertText(s)) /\ Apply(InsertText(s))

DoDelete ==
    \E u \in Units, lr \in LeftRight :
        Room(DeleteOp(u, lr)) /\ Apply(DeleteOp(u, lr))

DoUndo == RoomToUndo /\ Apply(UndoOp)

DoRedo == RoomToRedo /\ Apply(RedoOp)

Next ==
    \/ DoMoveVertical
    \/ DoMoveHorizontal
    \/ DoInsert
    \/ DoDelete
    \/ DoUndo
    \/ DoRedo

\* a field as from_rope builds it, before any call
NewField(t, c) ==
    /\ text = t
    /\ cursor = c
    /\ entries = <<>>
    /\ next_index = 0
    /\ op = NoOp
    /\ result = "Init"
    /\ new_pos = <<>>
    /\ oob = FALSE
    /\ pre = [text |-> t, cursor |-> c, next_index |-> 0, dropped |-> 0,
              edited |-> FALSE, rope |-> t, dirty |-> dirty]
    /\ dropped = 0
    /\ key = NoKey

\* KeyboardEditable::from_rope on any short text, with either cursor option
Init ==
    \E t \in TextsOver(FieldChars, MaxInitLen), cursor_at_end \in BOOLEAN :
        dirty = FALSE /\ NewField(t, from_rope(t, cursor_at_end))

Spec == Init /\ [][Next]_vars

-----------------------------------------------------------------------------
(* One call of handle_edit_event on any text, with any cursor a caller    *)
(* hands in, valid or not, and any operation                               *)

CallInsertTexts ==
    {<<c>> : c \in Chars} \cup {<<"a", "LF">>, <<"LF", "a">>, <<"CR", "LF">>}

CallInsert == \E s \in CallInsertTexts : Apply(InsertText(s))

InitCall ==
    \E t \in TextsOver(Chars, MaxCallLen) :
        \E l \in 0..(MaxCallLen + 1), c \in 0..(MaxCallLen + 1) :
            dirty = FALSE /\ NewField(t, Pos(l, c))

NextCall ==
    /\ result = "Init"
    /\ \/ DoMoveVertical
       \/ DoMoveHorizontal
       \/ CallInsert
       \/ DoDelete
       \/ DoUndo
       \/ DoRedo

SpecCall == InitCall /\ [][NextCall]_vars

-----------------------------------------------------------------------------
(* Moves of the cursor over any text: a text and a cursor a caller hands   *)
(* in, then any number of Move calls, each on the cursor the field stores  *)

NextMoves ==
    \/ DoMoveVertical
    \/ DoMoveHorizontal

SpecMoves == InitCall /\ [][NextMoves]_vars

-----------------------------------------------------------------------------
(* The log of a field: a new field, then edits of one character, Undo and  *)
(* Redo, with a longer log than Spec follows                               *)

\* an edit is taken while the log and the buffer stay within the bounds
RoomInLog(o) ==
    /\ next_index < MaxLogLen
    /\ o.kind = "InsertText" => Len(text) + Len(o.text) <= MaxLen

LogInsert ==
    RoomInLog(InsertText(<<"a">>)) /\ Apply(InsertText(<<"a">>))

LogDelete ==
    RoomInLog(DeleteOp("Char", "Left"))
        /\ Apply(DeleteOp("Char", "Left"))

NextLog ==
    \/ LogInsert
    \/ LogDelete
    \/ DoUndo
    \/ DoRedo

SpecLog == Init /\ [][NextLog]_vars

-----------------------------------------------------------------------------
(* A text box (the filter box, the tags box) fed with key events: a new    *)
(* field, then any number of keys                                          *)

KeyCodes ==
    {"Up", "Down", "Left", "Right", "Enter", "Backspace", "Delete",
     "Esc", "Tab", "Home"}

\* the characters typed: the letters of the bindings, one other and a line
\* feed
KeyChars == KeyLetters \cup {".", "LF"}

KeyEvents ==
    {Key(c, alt, ctrl) : c \in KeyCodes, alt \in BOOLEAN, ctrl \in BOOLEAN}
        \cup {KeyChar(c, alt, ctrl) :
                  c \in KeyChars, alt \in BOOLEAN, ctrl \in BOOLEAN}

\* a text box that clears the log on a key it does not apply: what C27
\* rules out
KeyNotApplied_clearing_log ==
    /\ UNCHANGED <<text, cursor>>
    /\ entries' = <<>>
    /\ next_index' = 0
    /\ op' = NoOp
    /\ result' = "Ignored"
    /\ new_pos' = <<>>
    /\ oob' = FALSE
    /\ dropped' = 0
    /\ pre' = Field

\* the key leads to no call of apply_text_op: the field stays as it is
KeyNotApplied ==
    /\ UNCHANGED <<text, cursor, entries, next_index>>
    /\ op' = NoOp
    /\ result' = "Ignored"
    /\ new_pos' = <<>>
    /\ oob' = FALSE
    /\ dropped' = 0
    /\ pre' = Field

\* an op from a key is taken while the buffer and the log stay within the
\* bounds
RoomForKey(o) ==
    /\ o.kind \in {"InsertText", "Delete"} => Room(o)
    /\ o.kind = "Undo" => RoomToUndo
    /\ o.kind = "Redo" => RoomToRedo

\* a text box that applies every InsertText, a newline too: what C38 rules
\* out
handle_key_applying_newlines(k) ==
    /\ result # "Panic"
    /\ key' = k
    /\ UNCHANGED dirty
    /\ IF k.code \in {"Enter", "Esc"} THEN KeyNotApplied
       ELSE LET text_op == map_key_event(k)
            IN  IF text_op = <<>> THEN KeyNotApplied
                ELSE RoomForKey(text_op[1]) /\ apply_text_op(text_op[1])

\* FilterTui::handle_key and the tags box's handle_key, as far as the text
\* box goes: Enter and Esc are the box's own, a key without TextOp is left
\* unhandled, an InsertText that holds a newline is dropped, every other
\* TextOp is applied
handle_key(k) ==
    /\ result # "Panic"
    /\ key' = k
    /\ UNCHANGED dirty
    /\ IF k.code \in {"Enter", "Esc"} THEN KeyNotApplied
       ELSE LET text_op == map_key_event(k)
            IN  IF text_op = <<>> THEN KeyNotApplied
                ELSE IF text_op[1].kind = "InsertText"
                        /\ \E i \in 1..Len(text_op[1].text) :
                               is_newline(text_op[1].text[i])
                THEN KeyNotApplied
                ELSE RoomForKey(text_op[1]) /\ apply_text_op(text_op[1])

NextKeys == \E k \in KeyEvents : handle_key(k)

SpecKeys == Init /\ [][NextKeys]_vars

-----------------------------------------------------------------------------
(* A task: its body is a field built with the cursor at the end, its dirty *)
(* bit is set by the text operations and cleared by write_file             *)

\* every TextOp of the inputs
TextOps ==
    {MoveUp, MoveDown, UndoOp, RedoOp}
        \cup {MoveHorizontal(u, lr) : u \in Units, lr \in LeftRight}
        \cup {InsertText(s) : s \in InsertTexts}
        \cup {DeleteOp(u, lr) : u \in Units, lr \in LeftRight}

\* a TaskEditableMut::apply_text_op that stores whether the last result
\* was Dirty, so that a Noop clears the bit: what C39 rules out
TaskEditableMut_apply_text_op_storing_result(o) ==
    /\ apply_text_op(o)
    /\ dirty' = (result' = "Dirty")
    /\ UNCHANGED key

\* TaskEditableMut::apply_text_op: the call on the task's body; Dirty sets
\* the dirty bit, Noop leaves it
TaskEditableMut_apply_text_op(o) ==
    /\ apply_text_op(o)
    /\ dirty' = IF result' = "Dirty" THEN TRUE ELSE dirty
    /\ UNCHANGED key

\* what stands in op after a write_file
WriteFileOp == [kind |-> "WriteFile"]

\* Data::write_file for the task: the file is written and clear_dirty
\* called (ok), or an error of the file system is returned before it
write_file(ok) ==
    /\ result # "Panic"
    /\ dirty' = IF ok THEN FALSE ELSE dirty
    /\ op' = WriteFileOp
    /\ result' = IF ok THEN "Written" ELSE "WriteError"
    /\ new_pos' = <<>>
    /\ oob' = FALSE
    /\ dropped' = 0
    /\ pre' = Field
    /\ UNCHANGED <<text, cursor, entries, next_index, key>>

\* Data::write_dirty, for one task: write_file when the task is dirty
write_dirty == dirty /\ \E ok \in BOOLEAN : write_file(ok)

TaskEdit ==
    \E o \in TextOps : RoomForKey(o) /\ TaskEditableMut_apply_text_op(o)

NextTask ==
    \/ TaskEdit
    \/ write_dirty

\* a task as Task::new (dirty) or Task::from_string (dirty or not) builds
\* it, with its body from any short text
InitTask ==
    \E t \in TextsOver(FieldChars, MaxInitLen), d \in BOOLEAN :
        dirty = d /\ NewField(t, from_rope(t, TRUE))

SpecTask == InitTask /\ [][NextTask]_vars

-----------------------------------------------------------------------------
(* Properties *)

\* a Position the coordinate mapper accepts for text t
ValidPos(t, p) == get_byte(t, p).tag = "Ok"

\* the byte offset of a valid Position
ByteOf(t, p) == get_byte(t, p).val

FieldUnchanged == UNCHANGED <<text, cursor, entries, next_index>>

C2_UndoRestoresCursor ==
    [][(Edited /\ ValidPos(pre.text, pre.cursor) /\ op'.kind = "Undo")
          => cursor' = pre.cursor]_vars

C6_NeverPanics == result # "Panic"

\* C7: a Move, InsertText or Delete handed an invalid cursor returns
\* (Noop, None).
C7_InvalidCursorRejected ==
    (op.kind \in {"Move", "InsertText", "Delete"}
        /\ ~ValidPos(pre.text, pre.cursor))
        => (result = "Noop" /\ new_pos = <<>>)

\* C8: the stored cursor of a field is a valid Position of its text.
C8_CursorValid == ValidPos(text, cursor)

\* C9: with a valid cursor no Move, InsertText or Delete leaves through the
\* OutOfBounds diagnostic, and no Undo or Redo of a field does.
C9_OutOfBoundsOnlyFromInvalidCursor ==
    /\ (op.kind \in {"Move", "InsertText", "Delete"}
           /\ ValidPos(pre.text, pre.cursor)) => ~oob
    /\ op.kind \in {"Undo", "Redo"} => ~oob

\* C10: Move(Horizontal{Char, dir}) from a valid cursor returns a Position
\* whose byte offset is the character boundary one character away in that
\* direction, or the cursor's own offset at that edge of the buffer.
C10_CharMoveOnBoundary ==
    LET b == ByteOf(pre.text, pre.cursor)
        k == CharsBefore(text, b)
        one_char_away ==
            IF op.lr = "Left"
            THEN byte_len(Prefix(text, IF k > 0 THEN k - 1 ELSE 0))
            ELSE byte_len(Prefix(text, IF k < Len(text) THEN k + 1 ELSE k))
    IN  (op.kind = "Move" /\ op.dir = "Horizontal" /\ op.unit = "Char"
            /\ ValidPos(pre.text, pre.cursor))
            => /\ result = "Noop"
               /\ new_pos # <<>>
               /\ ValidPos(text, new_pos[1])
               /\ ByteOf(text, new_pos[1]) = one_char_away

\* the last call was Move(Horizontal{u, lr})
MovedHorizontal(o, u, lr) ==
    o.kind = "Move" /\ o.dir = "Horizontal" /\ o.unit = u /\ o.lr = lr

\* p is a valid Position of t before its end
BeforeEnd(t, p) == ValidPos(t, p) /\ ByteOf(t, p) < byte_len(t)

\* p is a valid Position of t after its start
AfterStart(t, p) == ValidPos(t, p) /\ ByteOf(t, p) > 0

\* C11: from a valid cursor before the end of the buffer, Move Char Right
\* returns a Position, and a Move Char Left right after it returns the
\* cursor the first move started from.
C11_CharRightLeftReturns ==
    [][/\ (BeforeEnd(text, cursor) /\ MovedHorizontal(op', "Char", "Right"))
           => (result' = "Noop" /\ new_pos' # <<>>)
       /\ (BeforeEnd(pre.text, pre.cursor)
              /\ MovedHorizontal(op, "Char", "Right")
              /\ MovedHorizontal(op', "Char", "Left"))
           => (new_pos' = <<pre.cursor>> /\ cursor' = pre.cursor)]_vars

\* C12: from a valid cursor neither at the start nor at the end of the
\* buffer, Move Line Right returns a Position, and a Move Line Left right
\* after it returns the cursor the first move started from.
C12_LineRightLeftReturns ==
    [][/\ (BeforeEnd(text, cursor) /\ AfterStart(text, cursor)
              /\ MovedHorizontal(op', "Line", "Right"))
           => (result' = "Noop" /\ new_pos' # <<>>)
       /\ (BeforeEnd(pre.text, pre.cursor) /\ AfterStart(pre.text, pre.cursor)
              /\ MovedHorizontal(op, "Line", "Right")
              /\ MovedHorizontal(op', "Line", "Left"))
           => (new_pos' = <<pre.cursor>> /\ cursor' = pre.cursor)]_vars

\* C13: a buffer that ends with a newline accepts the Position
\* (line_len, 0) as its end; InsertText of a text without newlines there
\* appends the text, returns Dirty and leaves the cursor at
\* (line_len, number of characters inserted), a valid Position.
C13_InsertAtSimulatedFinalNewline ==
    (/\ op.kind = "InsertText"
     /\ NewlineCount(op.text) = 0
     /\ pre.text # <<>>
     /\ is_newline(pre.text[Len(pre.text)])
     /\ pre.cursor = Pos(line_len(pre.text), 0))
        => /\ ValidPos(pre.text, pre.cursor)
           /\ ByteOf(pre.text, pre.cursor) = byte_len(pre.text)
           /\ result = "Dirty"
           /\ text = pre.text \o op.text
           /\ new_pos = <<Pos(line_len(pre.text), Len(op.text))>>
           /\ ValidPos(text, cursor)

\* C14: Move(Horizontal{Word, dir}) from a valid cursor returns the Position
\* of the cursor's byte offset moved by the bytes of two runs of the
\* characters in the scan direction: first the run of newlines if the first
\* character is a newline, else the run of inline whitespace; then, from the
\* first character not consumed, the run of characters of that character's
\* class (Alphanumeric, Whitespace, Newline or Other).
C14_WordScanTwoPhases ==
    LET b == ByteOf(pre.text, pre.cursor)
        k == CharsBefore(pre.text, b)
        it == IF op.lr = "Left"
              THEN Reverse(Prefix(pre.text, k))
              ELSE Suffix(pre.text, k)
        phase1 == IF it # <<>> /\ is_newline(it[1])
                  THEN RunLen(it, Newlines)
                  ELSE RunLen(it, InlineWhitespace)
        rest == Suffix(it, phase1)
        phase2 == IF rest = <<>> THEN 0
                  ELSE RunLen(rest, {c \in AllChars :
                                         CharType(c) = CharType(rest[1])})
        consumed == byte_len(Prefix(it, phase1 + phase2))
    IN  (op.kind = "Move" /\ op.dir = "Horizontal" /\ op.unit = "Word"
            /\ ValidPos(pre.text, pre.cursor))
            => /\ result = "Noop"
               /\ new_pos # <<>>
               /\ ValidPos(text, new_pos[1])
               /\ ByteOf(text, new_pos[1])
                      = (IF op.lr = "Left" THEN b - consumed ELSE b + consumed)

\* C15: Move(Horizontal{Line, dir}) from a valid cursor.  If the character
\* next to the cursor in the scan direction is a newline, the result is the
\* Position one character past it: from column 0 of a line k > 0, Left
\* gives the end of line k - 1; from the end of a line, Right gives column 0
\* of the next line.  Otherwise the result is the Position at the end of
\* the run of characters that are not newlines: no newline is crossed.
C15_LineScan ==
    LET b == ByteOf(pre.text, pre.cursor)
        k == CharsBefore(pre.text, b)
        l == pre.cursor.line
        it == IF op.lr = "Left"
              THEN Reverse(Prefix(pre.text, k))
              ELSE Suffix(pre.text, k)
        at_newline == it # <<>> /\ is_newline(it[1])
        consumed == IF at_newline THEN len_utf8(it[1])
                    ELSE byte_len(Prefix(it, RunLen(it, AllChars \ Newlines)))
    IN  (op.kind = "Move" /\ op.dir = "Horizontal" /\ op.unit = "Line"
            /\ ValidPos(pre.text, pre.cursor))
            => /\ result = "Noop"
               /\ new_pos # <<>>
               /\ ValidPos(text, new_pos[1])
               /\ ByteOf(text, new_pos[1])
                      = (IF op.lr = "Left" THEN b - consumed ELSE b + consumed)
               /\ (at_newline /\ op.lr = "Left" /\ l > 0
                      /\ pre.cursor.column = 0)
                     => new_pos[1] = Pos(l - 1, Len(line(text, l - 1)))
               /\ (at_newline /\ op.lr = "Right" /\ l < line_len(text)
                      /\ pre.cursor.column = Len(line(text, l)))
                     => new_pos[1] = Pos(l + 1, 0)

\* C16: Delete{Line, Left} from a valid cursor (l, c) with c > 0 removes the
\* c characters of line l before the cursor and nothing else, returns Dirty
\* and returns the cursor (l, 0).
C16_DeleteLineLeft ==
    LET k == CharsBefore(pre.text, ByteOf(pre.text, pre.cursor))
        c == pre.cursor.column
    IN  (op.kind = "Delete" /\ op.unit = "Line" /\ op.lr = "Left"
            /\ ValidPos(pre.text, pre.cursor) /\ c > 0)
            => /\ result = "Dirty"
               /\ text = Prefix(pre.text, k - c) \o Suffix(pre.text, k)
               /\ new_pos = <<Pos(pre.cursor.line, 0)>>

\* C17: an Undo or a Redo as the first call on a new field, and an Undo
\* whenever next_index is 0, returns (Noop, None) and changes neither text,
\* cursor nor log.
C17_NothingToUndoIsNoop ==
    [][((op'.kind = "Undo" /\ next_index = 0)
            \/ (result = "Init" /\ op'.kind \in {"Undo", "Redo"}))
          => (result' = "Noop" /\ new_pos' = <<>> /\ FieldUnchanged)]_vars

\* an Undo has returned Noop at next_index 0 on a field whose log holds an
\* entry that an earlier Undo stepped back over
C17_Witness ==
    /\ op.kind = "Undo"
    /\ result = "Noop"
    /\ pre.next_index = 0
    /\ next_index = 0
    /\ entries # <<>>
    /\ text = pre.text
    /\ cursor = pre.cursor

\* C18: an InsertText or Delete that returns Dirty pushes its entry: the
\* entries before next_index are kept as they were, every entry at or
\* beyond next_index is discarded, the entry of the edit is appended, and
\* next_index becomes the new length, the old next_index plus 1.
C18_PushTruncatesThenAppends ==
    [][(op'.kind \in {"InsertText", "Delete"} /\ result' = "Dirty")
          => /\ Len(entries') = next_index + 1
             /\ Prefix(entries', next_index) = Prefix(entries, next_index)
             /\ entries'[next_index + 1].edit.kind
                    = (IF op'.kind = "InsertText" THEN "Insert" ELSE "Delete")
             /\ op'.kind = "InsertText"
                    => entries'[next_index + 1].edit = Insert(cursor, op'.text)
             /\ next_index' = Len(entries')
             /\ next_index' = next_index + 1]_vars

\* a push has kept an entry before next_index and discarded two beyond it
C18_Witness ==
    /\ Edited
    /\ pre.next_index = 1
    /\ dropped = 2
    /\ Len(entries) = 2
    /\ next_index = 2

\* C19: next_index is between 0 and the number of entries; an Undo finds
\* nothing to replay (it returns (Noop, None) without a diagnostic) exactly
\* when it is called at next_index 0, a Redo exactly when it is called at
\* next_index = number of entries; right after an InsertText or Delete that
\* returned Dirty next_index is the number of entries.
C19_LogIndexInRange ==
    /\ next_index \in 0..Len(entries)
    /\ Edited => next_index = Len(entries)
    /\ op.kind = "Undo"
          => ((result = "Noop" /\ new_pos = <<>> /\ ~oob)
                  <=> pre.next_index = 0)
    /\ op.kind = "Redo"
          => ((result = "Noop" /\ new_pos = <<>> /\ ~oob)
                  <=> pre.next_index = Len(entries))

\* an Undo has replayed an entry and left next_index inside the log, with
\* entries on both sides of it
C19_Witness ==
    /\ op.kind = "Undo"
    /\ result = "Dirty"
    /\ next_index > 0
    /\ next_index < Len(entries)
    /\ pre.next_index = next_index + 1

\* C20: a field just built by from_rope has the text it was given, an
\* empty log and next_index 0; its cursor is (0, 0) when cursor_at_end is
\* false and, when it is true, the Position whose byte offset is the byte
\* length of the text, for every text, one ending with a newline and the
\* empty one included.
C20_FromRope ==
    result = "Init"
        => /\ text = pre.text
           /\ entries = <<>>
           /\ next_index = 0
           /\ cursor \in {from_rope(text, e) : e \in BOOLEAN}
           /\ from_rope(text, FALSE) = Pos(0, 0)
           /\ ValidPos(text, from_rope(text, TRUE))
           /\ ByteOf(text, from_rope(text, TRUE)) = byte_len(text)

\* C21: InsertText(s) at a valid cursor (l, c) returns Dirty, inserts s at
\* the cursor's byte offset, and stores the Position just after the inserted
\* text: (l, c + the characters of s) when s has no newline, otherwise
\* (l + the newlines of s, the characters of s after its last newline).
C21_InsertMovesCursorPastText ==
    LET s == op.text
        last_newline == CHOOSE i \in 1..Len(s) :
                            is_newline(s[i])
                                /\ \A j \in (i + 1)..Len(s) : ~is_newline(s[j])
        after == IF NewlineCount(s) = 0
                 THEN Pos(pre.cursor.line, pre.cursor.column + Len(s))
                 ELSE Pos(pre.cursor.line + NewlineCount(s),
                          Len(s) - last_newline)
    IN  (op.kind = "InsertText" /\ ValidPos(pre.text, pre.cursor))
            => /\ result = "Dirty"
               /\ text = RopeInsert(pre.text, ByteOf(pre.text, pre.cursor), s)
               /\ new_pos = <<after>>
               /\ cursor = after

\* C22: for every text and every Position p that get_byte accepts,
\* pos_from_byte(get_byte(p)) is p: no two valid Positions of a text have
\* the same byte offset.
C22_PosByteRoundTrip ==
    /\ ValidPos(text, cursor)
          => pos_from_byte(text, ByteOf(text, cursor)) = Ok(cursor)
    /\ \A l \in 0..(MaxCallLen + 1), c \in 0..(MaxCallLen + 1) :
          (ValidPos(text, cursor) /\ ValidPos(text, Pos(l, c))
              /\ ByteOf(text, Pos(l, c)) = ByteOf(text, cursor))
              => Pos(l, c) = cursor

\* C23: for every text and every byte offset b from 0 to its byte length
\* that is a character boundary, pos_from_byte(b) is a valid Position whose
\* byte offset is b; pos_from_byte returns OutOfBounds for every b beyond
\* the byte length.
C23_BytePosRoundTrip ==
    \A b \in 0..(byte_len(text) + 2) :
        /\ (b <= byte_len(text) /\ IsCharBoundary(text, b))
              => /\ pos_from_byte(text, b).tag = "Ok"
                 /\ ValidPos(text, pos_from_byte(text, b).val)
                 /\ ByteOf(text, pos_from_byte(text, b).val) = b
        /\ b > byte_len(text) => pos_from_byte(text, b) = ErrOutOfBounds

\* C24: get_byte(pos) is the byte length for the simulated final newline;
\* otherwise it is OutOfBounds exactly when pos.line is no line of the text
\* or pos.column is beyond the characters of that line, and else the bytes
\* of the text before the line plus the bytes of the line's first
\* pos.column characters, the end of the line (column = its characters)
\* included.  An InsertText shows the offset: it leaves through the
\* diagnostic exactly for OutOfBounds and else inserts at that offset.
C24_GetByte ==
    LET t == pre.text
        p == pre.cursor
        simulated == /\ p.line = line_len(t)
                     /\ p.column = 0
                     /\ (t = <<>> \/ is_newline(t[Len(t)]))
        outside == p.line >= line_len(t) \/ p.column > Len(line(t, p.line))
        \* characters of t before p: those before its line, then p.column
        k == LineStart(t, p.line) - 1 + p.column
    IN  op.kind = "InsertText"
            => IF simulated
               THEN /\ get_byte(t, p) = Ok(byte_len(t))
                    /\ text = t \o op.text
               ELSE IF outside
               THEN /\ get_byte(t, p) = ErrOutOfBounds
                    /\ oob
                    /\ text = t
               ELSE /\ get_byte(t, p) = Ok(byte_len(Prefix(t, k)))
                    /\ ~oob
                    /\ text = Prefix(t, k) \o op.text \o Suffix(t, k)

\* an InsertText has been applied at the end of the second line of a text,
\* after a character of two bytes
C24_Witness ==
    /\ op.kind = "InsertText"
    /\ result = "Dirty"
    /\ pre.text = <<"LF", "E", "a">>
    /\ pre.cursor = Pos(1, 2)
    /\ text = <<"LF", "E", "a">> \o op.text

\* the TextOps that the canonical bindings name for key event k; a binding
\* that names a modifier holds whatever the other modifier, plain means
\* without modifier
CanonicalOps(k) ==
    LET is(c) == k.code = "Char" /\ k.char = c
        when(cond, o) == IF cond THEN {o} ELSE {}
    IN  when(k.code = "Up", MoveUp)
            \cup when(k.code = "Down", MoveDown)
            \cup when(k.code = "Left", MoveHorizontal("Char", "Left"))
            \cup when(k.code = "Right", MoveHorizontal("Char", "Right"))
            \cup when(is("a") /\ k.ctrl, MoveHorizontal("Line", "Left"))
            \cup when(is("e") /\ k.ctrl, MoveHorizontal("Line", "Right"))
            \cup when(is("b") /\ k.alt, MoveHorizontal("Word", "Left"))
            \cup when(is("f") /\ k.alt, MoveHorizontal("Word", "Right"))
            \cup when(k.code = "Enter", InsertText(<<"LF">>))
            \cup when(is("u") /\ k.ctrl, DeleteOp("Line", "Left"))
            \cup when(k.code = "Backspace" /\ ~k.alt /\ ~k.ctrl,
                      DeleteOp("Char", "Left"))
            \cup when(k.code = "Backspace" /\ k.alt, DeleteOp("Word", "Left"))
            \cup when(k.code = "Delete", DeleteOp("Line", "Right"))
            \cup when(is("d") /\ k.ctrl, DeleteOp("Char", "Right"))
            \cup when(is("d") /\ k.alt, DeleteOp("Word", "Right"))
            \cup when(is("z") /\ k.ctrl, UndoOp)
            \cup when(is("r") /\ k.ctrl, RedoOp)

\* C25: map_key_event gives the TextOp of the canonical binding of the key
\* (Up/Down, Left/Right, Ctrl+A/E, Alt+B/F, Enter, Ctrl+U, Backspace,
\* Alt+Backspace, Delete, Ctrl+D, Alt+D, Ctrl+Z, Ctrl+R) and, for a
\* character key outside the bindings, InsertText of that one character;
\* the op that a text box applies for a key is that TextOp.
C25_CanonicalBindings ==
    key # NoKey
        => /\ CanonicalOps(key) # {}
                 => map_key_event(key) \in {<<o>> : o \in CanonicalOps(key)}
           /\ (CanonicalOps(key) = {} /\ key.code = "Char")
                 => map_key_event(key) = <<InsertText(<<key.char>>)>>
           /\ result # "Ignored" => <<op>> = map_key_event(key)

\* Alt+Backspace has deleted the word before the cursor of a text box
C25_Witness ==
    /\ key = Key("Backspace", TRUE, FALSE)
    /\ op = DeleteOp("Word", "Left")
    /\ result = "Dirty"
    /\ pre.text = <<"a">>
    /\ pre.cursor = Pos(0, 1)
    /\ text = <<>>

\* C26: a call of apply_text_op that returned Noop left the buffer text as
\* it found it; a call that changed the text returned Dirty.
C26_NoopLeavesText ==
    /\ result = "Noop" => text = pre.text
    /\ text # pre.text => result = "Dirty"

\* an InsertText or Delete has returned Noop through the diagnostic, on a
\* field whose log holds an entry beyond next_index
C26_Witness ==
    /\ op.kind \in {"InsertText", "Delete"}
    /\ result = "Noop"
    /\ oob
    /\ text = pre.text
    /\ next_index < Len(entries)

\* the key codes that map_key_event has an arm for
MappedCodes ==
    {"Up", "Down", "Left", "Right", "Enter", "Backspace", "Delete", "Char"}

\* C27: map_key_event returns none exactly for the key codes other than Up,
\* Down, Left, Right, Enter, Backspace, Delete and Char(_), whatever the
\* modifiers; for such a key the text box applies no TextOp: text, cursor,
\* entries and next_index stay as they are.
C27_UnmappedKeysChangeNothing ==
    [][/\ map_key_event(key') = <<>> <=> key'.code \notin MappedCodes
       /\ key'.code \notin MappedCodes
             => (result' = "Ignored" /\ FieldUnchanged)]_vars

\* a key without TextOp has reached a text box whose log holds an entry and
\* whose cursor is not at the start
C27_Witness ==
    /\ key.code \in {"Tab", "Home"}
    /\ key.ctrl
    /\ result = "Ignored"
    /\ entries # <<>>
    /\ next_index = 1
    /\ cursor # Pos(0, 0)

\* C28: a Move (Up, Down, Horizontal of any unit and direction) returns
\* Noop and leaves text, entries and next_index as they are; so an Undo
\* after an edit and Moves restores in the buffer what an Undo right after
\* the edit restores.
C28_MoveChangesOnlyCursor ==
    [][op'.kind = "Move"
          => /\ result' = "Noop"
             /\ UNCHANGED <<text, entries, next_index>>
             /\ handle_edit_event(text', entries', next_index', cursor',
                                  UndoOp).text
                    = handle_edit_event(text, entries, next_index, cursor,
                                        UndoOp).text]_vars

\* C29: Move(Up) from a valid cursor (l, c) gives (l - 1, min(c, characters
\* of line l - 1)) when l > 0 and leaves the cursor when l = 0; Move(Down)
\* to a line l + 1 of the text gives (l + 1, min(c, characters of line
\* l + 1)).  No column is remembered: Down then Up from (l, c) ends at
\* (l, min(c, characters of line l + 1)).
C29_VerticalMoveClamps ==
    [][LET l == cursor.line
           c == cursor.column
           clamped(n) == Pos(n, Min(c, Len(line(text, n))))
       IN  /\ (op' = MoveUp /\ ValidPos(text, cursor) /\ l > 0)
                 => (result' = "Noop" /\ new_pos' = <<clamped(l - 1)>>
                     /\ cursor' = clamped(l - 1))
           /\ (op' = MoveUp /\ ValidPos(text, cursor) /\ l = 0)
                 => (result' = "Noop" /\ cursor' = cursor)
           /\ (op' = MoveDown /\ ValidPos(text, cursor)
                  /\ l + 1 < line_len(text))
                 => (result' = "Noop" /\ new_pos' = <<clamped(l + 1)>>
                     /\ cursor' = clamped(l + 1))
           /\ (op = MoveDown /\ ValidPos(text, pre.cursor)
                  /\ pre.cursor.line + 1 < line_len(text) /\ op' = MoveUp)
                 => cursor' = Pos(pre.cursor.line,
                                  Min(pre.cursor.column,
                                      Len(line(text, pre.cursor.line + 1))))
      ]_vars

\* an Up has arrived at column 0 of the first line of "a", empty line:
\* the column 1 that a Down left from is not restored
C29_Witness ==
    /\ op = MoveUp
    /\ text = <<"a", "LF", "LF">>
    /\ pre.cursor = Pos(1, 0)
    /\ cursor = Pos(0, 0)

\* C30: Move(Down) from a valid cursor on the last line (line_len - 1)
\* stores the simulated final newline (line_len, 0) if and only if the
\* buffer ends with a newline; when it does not, and when the cursor is on
\* the simulated final newline already or the buffer is empty, the stored
\* cursor stays as it is.
C30_DownFromLastLine ==
    [][(op' = MoveDown /\ ValidPos(text, cursor))
          => /\ (cursor.line = line_len(text) - 1 /\ text # <<>>)
                   => /\ cursor' = Pos(line_len(text), 0)
                            <=> is_newline(text[Len(text)])
                      /\ ~is_newline(text[Len(text)]) => cursor' = cursor
             /\ (cursor.line = line_len(text) \/ text = <<>>)
                   => cursor' = cursor]_vars

\* a Down from the end of the last line of a text that ends with a line
\* feed has arrived on the simulated final newline
C30_Witness ==
    /\ op = MoveDown
    /\ text = <<"LF", "a", "LF">>
    /\ pre.cursor = Pos(1, 1)
    /\ cursor = Pos(2, 0)

\* C31: Delete{unit, dir} from a valid cursor returns Dirty; it removes the
\* characters between the cursor and the boundary that the scanner gives
\* for (unit, dir) and nothing else, as a Delete from start to end with
\* start byte <= end byte (start is the boundary for Left, the cursor for
\* Right); the new cursor is start, a valid Position of the new text; one
\* log entry is pushed.
C31_DeleteRemovesScannedRange ==
    LET t == pre.text
        boundary == saturating_offset(t, pre.cursor, op.unit, op.lr)
        start == IF op.lr = "Left" THEN boundary.val ELSE pre.cursor
        end == IF op.lr = "Left" THEN pre.cursor ELSE boundary.val
    IN  (op.kind = "Delete" /\ ValidPos(t, pre.cursor))
            => /\ result = "Dirty"
               /\ boundary.tag = "Ok"
               /\ ByteOf(t, start) <= ByteOf(t, end)
               /\ text = RopeDelete(t, ByteOf(t, start), ByteOf(t, end))
               /\ new_pos = <<start>>
               /\ cursor = start
               /\ ValidPos(text, cursor)
               /\ Len(entries) = pre.next_index + 1
               /\ next_index = pre.next_index + 1
               /\ entries[next_index].edit = Delete(start, end)

\* C32: Undo and Redo leave the sequence of entries as it is, its length
\* and every entry; an Undo that finds an entry moves next_index down by
\* one, a Redo that finds one moves it up by one, and one that finds none
\* leaves it; entries change only in an InsertText or a Delete.
C32_ReplayKeepsEntries ==
    [][/\ op'.kind = "Undo"
             => /\ entries' = entries
                /\ next_index' = (IF next_index > 0 THEN next_index - 1
                                  ELSE next_index)
       /\ op'.kind = "Redo"
             => /\ entries' = entries
                /\ next_index' = (IF next_index < Len(entries)
                                  THEN next_index + 1 ELSE next_index)
       /\ entries' # entries => op'.kind \in {"InsertText", "Delete"}]_vars

\* a second Undo in a row has left a log of three entries at next_index 1
C32_Witness ==
    /\ op.kind = "Undo"
    /\ result = "Dirty"
    /\ Len(entries) = 3
    /\ pre.next_index = 2
    /\ next_index = 1

\* Undo applied again and again up to the one that returns Noop: what the
\* last call leaves
RECURSIVE UndoAll(_, _, _)
UndoAll(t, es, ni) ==
    LET out == HandleReplay(t, es, ni, UndoOp)
    IN  IF out.result # "Dirty" THEN out
        ELSE UndoAll(out.text, out.entries, out.next_index)

\* Redo applied again and again up to the one that returns Noop
RECURSIVE RedoAll(_, _, _)
RedoAll(t, es, ni) ==
    LET out == HandleReplay(t, es, ni, RedoOp)
    IN  IF out.result # "Dirty" THEN out
        ELSE RedoAll(out.text, out.entries, out.next_index)

C34_EmptyDeleteCommits ==
    [][/\ (op'.kind = "Delete" /\ ValidPos(text, cursor)
              /\ saturating_offset(text, cursor, op'.unit, op'.lr).tag = "Ok"
              /\ ByteOf(text, saturating_offset(text, cursor, op'.unit,
                                                op'.lr).val)
                     = ByteOf(text, cursor))
             => /\ result' = "Dirty"
                /\ text' = text
                /\ cursor' = cursor
                /\ Len(entries') = next_index + 1
                /\ next_index' = next_index + 1
       /\ (op.kind = "Delete" /\ result = "Dirty" /\ text = pre.text
              /\ op'.kind = "Redo")
             => (result' = "Noop" /\ new_pos' = <<>> /\ FieldUnchanged)]_vars

\* a Delete that removed nothing has returned Dirty and has discarded the
\* entry that an Undo had left to redo
C34_Witness ==
    /\ op.kind = "Delete"
    /\ result = "Dirty"
    /\ ValidPos(pre.text, pre.cursor)
    /\ text = pre.text
    /\ cursor = pre.cursor
    /\ dropped = 1
    /\ next_index = Len(entries)

\* C35: an Undo or Redo gives the same text, entries, next_index, result
\* and new cursor whatever cursor it is handed, valid or not: what the call
\* on the stored cursor left is what the call on any other cursor leaves.
C35_ReplayIgnoresCursor ==
    [][op'.kind \in {"Undo", "Redo"}
          => \A l \in 0..(MaxLen + 1), c \in 0..(MaxLen + 1) :
                 LET other == handle_edit_event(text, entries, next_index,
                                                Pos(l, c), op')
                 IN  /\ other.text = text'
                     /\ other.entries = entries'
                     /\ other.next_index = next_index'
                     /\ other.result = result'
                     /\ other.new_pos = new_pos'
                     /\ other.oob = oob']_vars

\* an Undo handed a cursor that a Move had taken away from the edit has
\* changed the text and returned another Position
C35_Witness ==
    /\ op.kind = "Undo"
    /\ result = "Dirty"
    /\ text # pre.text
    /\ ~pre.edited
    /\ new_pos # <<pre.cursor>>

\* C36: Move(Horizontal{Word | Line, dir}) from a valid cursor: the byte
\* offset that the scan arrives at lies between 0 and the byte length, on
\* the side of the cursor that dir names, on a character boundary, and the
\* call returns the valid Position of that offset.
C36_ScanStaysOnBoundaries ==
    LET t == pre.text
        b == ByteOf(t, pre.cursor)
        k == CharsBefore(t, b)
        it == IF op.lr = "Left" THEN Reverse(Prefix(t, k)) ELSE Suffix(t, k)
        n == IF op.unit = "Word" THEN WordCount(it) ELSE LineCount(it)
        target == IF op.lr = "Left" THEN b - n ELSE b + n
    IN  (op.kind = "Move" /\ op.dir = "Horizontal"
            /\ op.unit \in {"Word", "Line"} /\ ValidPos(t, pre.cursor))
            => /\ target \in 0..byte_len(t)
               /\ IF op.lr = "Left" THEN target <= b ELSE target >= b
               /\ IsCharBoundary(t, target)
               /\ result = "Noop"
               /\ new_pos # <<>>
               /\ ValidPos(t, new_pos[1])
               /\ ByteOf(t, new_pos[1]) = target

\* C37: on the empty buffer (0, 0) is a valid Position, of byte 0, and the
\* only one; from_rope gives it with either cursor option; there an
\* InsertText of one character that is no newline leaves that character as
\* the text and the cursor (0, 1), and every Move and Delete leaves the
\* text empty and the cursor (0, 0) without the OutOfBounds diagnostic.
C37_EmptyBuffer ==
    [][(text = <<>> /\ cursor = Pos(0, 0))
          => /\ \A l \in 0..(MaxLen + 1), c \in 0..(MaxLen + 1) :
                    ValidPos(<<>>, Pos(l, c)) <=> (l = 0 /\ c = 0)
             /\ ByteOf(<<>>, Pos(0, 0)) = 0
             /\ \A e \in BOOLEAN : from_rope(<<>>, e) = Pos(0, 0)
             /\ (op'.kind = "InsertText" /\ Len(op'.text) = 1
                    /\ ~is_newline(op'.text[1]))
                   => (result' = "Dirty" /\ text' = op'.text
                       /\ cursor' = Pos(0, 1))
             /\ op'.kind \in {"Move", "Delete"}
                   => (text' = <<>> /\ cursor' = Pos(0, 0) /\ ~oob'
                       /\ result' # "Panic")]_vars

\* the first call on a field built from the empty text has inserted a
\* character
C37_Witness ==
    /\ op.kind = "InsertText"
    /\ pre.rope = <<>>
    /\ pre.text = <<>>
    /\ entries = <<LogEntryOf(<<>>, Insert(Pos(0, 0), <<"a">>))>>
    /\ text = <<"a">>
    /\ cursor = Pos(0, 1)

\* C38: a key whose TextOp is an InsertText holding a newline-class
\* character leaves the text box as it was, without a call of
\* apply_text_op; and after every key a box built from the empty text (the
\* filter box) holds no newline-class character and has its cursor on
\* line 0.
C38_BoxStaysSingleLine ==
    [][/\ (LET text_op == map_key_event(key')
           IN  /\ text_op # <<>>
               /\ text_op[1].kind = "InsertText"
               /\ \E i \in 1..Len(text_op[1].text) :
                      is_newline(text_op[1].text[i]))
              => (FieldUnchanged /\ result' = "Ignored")
       /\ pre'.rope = <<>>
              => /\ \A i \in 1..Len(text') : ~is_newline(text'[i])
                 /\ line_len(text') <= 1
                 /\ cursor'.line = 0]_vars

\* a line feed was typed into a filter box that holds text, and dropped
C38_Witness ==
    /\ key = KeyChar("LF", FALSE, FALSE)
    /\ result = "Ignored"
    /\ pre.rope = <<>>
    /\ text = <<"a">>
    /\ cursor = Pos(0, 1)
    /\ next_index = 1

\* C39: a call of TaskEditableMut::apply_text_op that returns Dirty leaves
\* the task's dirty bit set, one that returns Noop leaves the bit as it
\* was; so a call that changes the task body leaves the bit set, and the
\* bit is cleared only by a write_file that has written the file.
C39_DirtyBitSetNeverCleared ==
    [][/\ op'.kind \in {"Move", "InsertText", "Delete", "Undo", "Redo"}
             => /\ result' = "Dirty" => dirty'
                /\ result' = "Noop" => dirty' = dirty
                /\ text' # text => dirty'
                /\ dirty => dirty'
       /\ (dirty /\ ~dirty')
             => (op' = WriteFileOp /\ result' = "Written")]_vars

\* an Undo has changed the body of a task that was not dirty, and set the
\* bit
C39_Witness ==
    /\ op = UndoOp
    /\ result = "Dirty"
    /\ text # pre.text
    /\ ~pre.dirty
    /\ dirty

====
